---------------------------- MODULE Spec2Model ----------------------------
(***************************************************************************)
(* State-machine model of yt_grabber: the download orchestrator            *)
(* (services/download_manager.py), its worker threads, the session model   *)
(* (viewmodels/main_viewmodel.py) and the metadata store                   *)
(* (services/metadata_handler.py).                                         *)
(*                                                                         *)
(* Python strings that the code inspects character by character (URLs,     *)
(* video ids) are sequences of one-character strings; strings the code     *)
(* only stores and compares are TLA+ strings.  Optional[x] is <<>> for     *)
(* None and <<x>> for a value.                                             *)
(***************************************************************************)
EXTENDS Integers, Sequences, FiniteSets, TLC

(***************************************************************************)
(* Bounds of the model.                                                    *)
(***************************************************************************)
\* number of task ids add_download may issue
MaxTasks == 2
\* number of progress_updated signals of one task that can be waiting for
\* their slot (the transfer call makes any number of hook invocations)
MaxPending == 2

\* number of downloads MainViewModel.add_download accepts in the runs of Spec
MaxSessions == 1

None == <<>>
Some(x) == <<x>>

(***************************************************************************)
(* utils/url_validator.py                                                  *)
(***************************************************************************)
Lower == {"a","b","c","d","e","f","g","h","i","j","k","l","m",
          "n","o","p","q","r","s","t","u","v","w","x","y","z"}
Upper == {"A","B","C","D","E","F","G","H","I","J","K","L","M",
          "N","O","P","Q","R","S","T","U","V","W","X","Y","Z"}
Digit == {"0","1","2","3","4","5","6","7","8","9"}
\* the character class [a-zA-Z0-9_-]
IdChars == Lower \cup Upper \cup Digit \cup {"_", "-"}
\* the repetition count {11} of the capture group
IdLen == 11

L_http == <<"h","t","t","p",":","/","/">>
L_https == <<"h","t","t","p","s",":","/","/">>
L_ftp == <<"f","t","p",":","/","/">>
L_www == <<"w","w","w",".">>
L_youtube == <<"y","o","u","t","u","b","e",".","c","o","m","/">>
L_youtu_be == <<"y","o","u","t","u",".","b","e","/">>
L_example == <<"e","x","a","m","p","l","e",".","c","o","m","/">>
L_watch_q == <<"w","a","t","c","h","?">>
L_v_eq == <<"v","=">>
L_embed == <<"e","m","b","e","d","/">>
L_shorts == <<"s","h","o","r","t","s","/">>
L_list == <<"l","i","s","t","=","P","L","&">>

\* URL_PATTERNS: each pattern is (?:https?://)?(?:www\.)? head [.*] tail ([a-zA-Z0-9_-]{11})
URL_PATTERNS ==
    << [head |-> L_youtube \o L_watch_q \o L_v_eq, dotstar |-> FALSE, tail |-> <<>>],
       [head |-> L_youtu_be,                       dotstar |-> FALSE, tail |-> <<>>],
       [head |-> L_youtube \o L_embed,             dotstar |-> FALSE, tail |-> <<>>],
       [head |-> L_youtube \o L_shorts,            dotstar |-> FALSE, tail |-> <<>>],
       [head |-> L_youtube \o L_watch_q,           dotstar |-> TRUE,  tail |-> L_v_eq] >>

\* the literal lit occurs in s at position i
LitAt(s, i, lit) ==
    /\ i >= 1
    /\ i + Len(lit) - 1 <= Len(s)
    /\ SubSeq(s, i, i + Len(lit) - 1) = lit

\* ([a-zA-Z0-9_-]{11}) matches in s at position i
IdAt(s, i) ==
    /\ i >= 1
    /\ i + IdLen - 1 <= Len(s)
    /\ \A k \in 0 .. (IdLen - 1) : s[i + k] \in IdChars

MaxOf(S) == CHOOSE x \in S : \A y \in S : y <= x
MinOf(S) == CHOOSE x \in S : \A y \in S : x <= y

\* position of group(1) when the part of pattern p after the optional
\* prefixes matches s from position c; 0 when it does not match
BodyAt(p, s, c) ==
    IF ~LitAt(s, c, p.head) THEN 0
    ELSE LET h == c + Len(p.head)
         IN  IF ~p.dotstar
             THEN IF IdAt(s, h) THEN h ELSE 0
             ELSE \* greedy .* (no newline), then tail, then the group
                  LET js == { j \in h .. (Len(s) + 1) :
                                /\ \A k \in h .. (j - 1) : s[k] # "\n"
                                /\ LitAt(s, j, p.tail)
                                /\ IdAt(s, j + Len(p.tail)) }
                  IN  IF js = {} THEN 0 ELSE MaxOf(js) + Len(p.tail)

\* position of group(1) of a match of p that starts at position i of s, the
\* optional groups tried present first (greedy); 0 when none
MatchAt(p, s, i) ==
    LET scheme == IF LitAt(s, i, L_https) THEN Len(L_https)
                  ELSE IF LitAt(s, i, L_http) THEN Len(L_http) ELSE 0
        www(c) == IF LitAt(s, c, L_www) THEN Len(L_www) ELSE 0
        try(a, b) == BodyAt(p, s, i + a + b)
        t1 == try(scheme, www(i + scheme))
        t2 == try(scheme, 0)
        t3 == try(0, www(i))
        t4 == try(0, 0)
    IN  IF t1 # 0 THEN t1 ELSE IF t2 # 0 THEN t2 ELSE IF t3 # 0 THEN t3 ELSE t4

\* re.search(p, s): group(1) of the leftmost match, or None
Search(p, s) ==
    LET starts == { i \in 1 .. (Len(s) + 1) : MatchAt(p, s, i) # 0 }
    IN  IF starts = {} THEN None
        ELSE LET g == MatchAt(p, s, MinOf(starts))
             IN  Some(SubSeq(s, g, g + IdLen - 1))

RECURSIVE FirstMatch(_, _)
FirstMatch(s, n) ==
    IF n > Len(URL_PATTERNS) THEN None
    ELSE IF Search(URL_PATTERNS[n], s) # None THEN Search(URL_PATTERNS[n], s)
    ELSE FirstMatch(s, n + 1)

extract_video_id(url) ==
    IF url = <<>> THEN None ELSE FirstMatch(url, 1)

is_valid_youtube_url(url) == extract_video_id(url) # None

normalize_url(url) ==
    LET video_id == extract_video_id(url)
    IN  IF video_id # None
        THEN Some(L_https \o L_www \o L_youtube \o L_watch_q \o L_v_eq \o video_id[1])
        ELSE None

(***************************************************************************)
(* The URLs submitted in the model.                                        *)
(***************************************************************************)
IdA == <<"d","Q","w","4","w","9","W","g","X","c","Q">>
IdB == <<"a","b","c","_","E","F","-","1","2","3","4">>

\* https://youtu.be/dQw4w9WgXcQ
UrlShort == L_https \o L_youtu_be \o IdA
\* youtube.com/watch?list=PL&v=abc_EF-1234
UrlList == L_youtube \o L_watch_q \o L_list \o L_v_eq \o IdB
\* ftp://example.com/x
UrlFtp == L_ftp \o L_example \o <<"x">>
\* not a url
UrlText == <<"n","o","t"," ","a"," ","u","r","l">>
\* https://youtu.be/dQw4w9WgXc  (a ten-character id)
UrlTenChars == L_https \o L_youtu_be \o SubSeq(IdA, 1, 10)

Urls == {UrlShort, UrlList, UrlFtp, UrlText, UrlTenChars}

\* what the validator computes for the URLs of the model, evaluated once
UrlTable ==
    [ u \in Urls |-> [ valid |-> is_valid_youtube_url(u),
                       normalized |-> normalize_url(u),
                       video_id |-> extract_video_id(u) ] ]

\* the submissions (url, quality) made in the model: one with a quality of the
\* table, one with an unrecognized quality, and two with URLs that match no pattern
Submissions ==
    { [url |-> UrlShort, quality |-> "720p"],
      [url |-> UrlList, quality |-> "4k"],
      [url |-> UrlFtp, quality |-> "720p"],
      [url |-> UrlTenChars, quality |-> "best"] }

(***************************************************************************)
(* models/video_info.py                                                    *)
(***************************************************************************)
\* VideoInfo(video_id, title, uploader, ...) with the dataclass defaults
VideoInfo(video_id, title, uploader) ==
    [ video_id |-> video_id, title |-> title, uploader |-> uploader,
      upload_date |-> None, duration |-> 0, filename |-> <<>>, filepath |-> <<>>,
      file_size |-> 0, quality |-> "best", thumbnail_url |-> "",
      downloaded_at |-> None, url |-> <<>>,
      status |-> "pending", progress |-> 0, speed |-> 0, error_message |-> "" ]

\* an isoformat() that writes whole seconds
isoformat_seconds(dt) == <<"T", dt.s>>

\* datetime.isoformat(): the microseconds are written only when non-zero
isoformat(dt) ==
    IF dt.us = 0 THEN <<"T", dt.s>> ELSE <<"T", dt.s, ".", dt.us>>

\* datetime.fromisoformat() on the output of isoformat()
fromisoformat(str) ==
    IF Len(str) = 2 THEN [s |-> str[2], us |-> 0] ELSE [s |-> str[2], us |-> str[4]]

to_dict(v) ==
    [ video_id |-> v.video_id, title |-> v.title, uploader |-> v.uploader,
      upload_date |-> v.upload_date, duration |-> v.duration,
      filename |-> v.filename, filepath |-> v.filepath, file_size |-> v.file_size,
      quality |-> v.quality, thumbnail_url |-> v.thumbnail_url,
      downloaded_at |-> IF v.downloaded_at # None
                        THEN Some(isoformat(v.downloaded_at[1])) ELSE None,
      url |-> v.url ]

from_dict(data) ==
    [ VideoInfo(data.video_id, data.title, data.uploader) EXCEPT
        !.upload_date = data.upload_date, !.duration = data.duration,
        !.filename = data.filename, !.filepath = data.filepath,
        !.file_size = data.file_size, !.quality = data.quality,
        !.thumbnail_url = data.thumbnail_url,
        !.downloaded_at = IF data.downloaded_at # None
                          THEN Some(fromisoformat(data.downloaded_at[1])) ELSE None,
        !.url = data.url ]

(***************************************************************************)
(* utils/file_helper.py                                                    *)
(***************************************************************************)
\* INVALID_CHARS: the class [<>:"/\\|?*]
INVALID_CHARS == {"<", ">", ":", "\"", "/", "\\", "|", "?", "*"}
\* the default of the parameter max_length
MaxFilenameLength == 200

\* INVALID_CHARS.sub("_", filename)
SubInvalid(str) == [i \in 1 .. Len(str) |-> IF str[i] \in INVALID_CHARS THEN "_" ELSE str[i]]

\* str.strip(" .")
RECURSIVE Strip(_)
Strip(str) ==
    IF str = <<>> THEN str
    ELSE IF str[1] \in {" ", "."} THEN Strip(Tail(str))
    ELSE IF str[Len(str)] \in {" ", "."} THEN Strip(SubSeq(str, 1, Len(str) - 1))
    ELSE str

\* re.sub(r"_+", "_", str)
RECURSIVE Collapse(_)
Collapse(str) ==
    IF Len(str) < 2 THEN str
    ELSE IF str[1] = "_" /\ str[2] = "_" THEN Collapse(Tail(str))
    ELSE <<str[1]>> \o Collapse(Tail(str))

\* position of the dot that starts Path(str).suffix, 0 when there is no suffix
SuffixPos(str) ==
    LET dots == { i \in 2 .. (Len(str) - 1) : str[i] = "." }
    IN  IF dots = {} THEN 0 ELSE MaxOf(dots)

sanitize_filename(filename, max_length) ==
    LET sanitized == Collapse(Strip(SubInvalid(filename)))
        dot == SuffixPos(sanitized)
        name == IF dot = 0 THEN sanitized ELSE SubSeq(sanitized, 1, dot - 1)
        ext == IF dot = 0 THEN <<>> ELSE SubSeq(sanitized, dot, Len(sanitized))
        max_name_length == max_length - Len(ext)
        cut == IF Len(sanitized) > max_length
               THEN \* name[:max_name_length] + ext
                    (IF max_name_length >= 0
                     THEN SubSeq(name, 1, max_name_length)
                     ELSE SubSeq(name, 1, Len(name) + max_name_length)) \o ext
               ELSE sanitized
    IN  IF cut = <<>> THEN <<"v","i","d","e","o">> ELSE cut

(***************************************************************************)
(* The external extraction/transfer collaborator (yt_dlp), at the          *)
(* interface the code uses: what its calls can return or raise.            *)
(***************************************************************************)
\* "Music: A"
T_Music == <<"M","u","s","i","c",":"," ","A">>
\* "VEVO"
T_Vevo == <<"V","E","V","O">>
\* "/out/Music A.mp4"
T_Prepared == <<"/","o","u","t","/","M","u","s","i","c"," ","A",".","m","p","4">>
\* "Unbekannt"
T_Unbekannt == <<"U","n","b","e","k","a","n","n","t">>
\* ".mp4"
T_mp4 == <<".","m","p","4">>

\* a dict value: the key is absent, holds None, or holds an integer
Absent == [k |-> "absent"]
PyNone == [k |-> "none"]
PyInt(n) == [k |-> "int", v |-> n]
Truthy(x) == x.k = "int" /\ x.v # 0

\* info dicts extract_info(url, download=False) can return for the normalized
\* url, whose last eleven characters are the video id
ExtractInfos(url) ==
    { [ id |-> Some(SubSeq(url, Len(url) - IdLen + 1, Len(url))), title |-> Some(T_Music),
        uploader |-> Some(T_Vevo), upload_date |-> Some("20240101"),
        duration |-> Some(212), thumbnail |-> Some("thumb.jpg") ] }

\* info dicts extract_info(url, download=True) can return, with the name
\* prepare_filename gives them (the expanded outtmpl, an absolute path)
TransferInfos ==
    { [ prepared |-> T_Prepared, filesize |-> PyNone, filesize_approx |-> PyInt(1000) ] }

\* the dicts yt_dlp passes to a progress hook
HookInputs ==
    [ status : {"downloading"}, total_bytes : {PyNone, PyInt(0), PyInt(2)},
      total_bytes_estimate : {Absent, PyNone, PyInt(1)},
      downloaded_bytes : {2}, speed : {PyNone} ]
    \cup
    [ status : {"finished"}, total_bytes : {PyInt(2)}, total_bytes_estimate : {Absent},
      downloaded_bytes : {2}, speed : {PyNone} ]

(***************************************************************************)
(* services/download_manager.py                                            *)
(***************************************************************************)
VARIABLES
    active_downloads,   \* DownloadManager.active_downloads: the task ids that are keys
    download_opts,      \* DownloadManager.download_opts: task id -> transfer handle
    nextId,             \* number of task ids issued (uuid4 never repeats)
    pc,                 \* position of each worker thread in _download_worker
    args,               \* arguments (url, quality) of each worker
    video_info,         \* local variable video_info of each worker
    queue,              \* per task, the signals the orchestrator has emitted and
                        \* no slot has handled yet, in the order of emission
    lastCall,           \* the operation the main thread performed in the step that led
                        \* to this state: a call of the public API or a slot, with its
                        \* argument, its return value and the signals MainViewModel
                        \* emitted in it (none after a step of a worker)
    downloads,          \* MainViewModel.downloads: task id -> VideoInfo
    library,            \* the file library.json: missing, corrupt, or a JSON object
    main                \* the main thread inside MainViewModel.add_download, between
                        \* the call of line 77 and line 79: its task_id and temp_video;
                        \* None when it is anywhere else

dm_vars == <<active_downloads, download_opts, nextId, pc, args, video_info, queue>>
vm_vars == <<downloads, library, main>>
vars == <<dm_vars, lastCall, vm_vars>>

TaskIds == 1 .. MaxTasks

Call(op, arg, ret, signals) == [op |-> op, arg |-> arg, ret |-> ret, signals |-> signals]
NoCall == Call("none", None, None, <<>>)

Init ==
    /\ active_downloads = {}
    /\ download_opts = <<>>
    /\ nextId = 0
    /\ pc = [t \in TaskIds |-> "idle"]
    /\ args = [t \in TaskIds |-> None]
    /\ video_info = [t \in TaskIds |-> None]
    /\ queue = [t \in TaskIds |-> <<>>]
    /\ lastCall = NoCall
    /\ downloads = <<>>
    /\ library = [kind |-> "missing"]
    /\ main = None

\* signal.emit(task_id, ...)
Emit(t, sig) == queue' = [queue EXCEPT ![t] = Append(@, sig)]

Remove(f, k) == [x \in DOMAIN f \ {k} |-> f[x]]
Put(f, k, v) == [x \in DOMAIN f \cup {k} |-> IF x = k THEN v ELSE f[x]]

\* add_download without the check of lines 47-48: every URL gets a worker
add_download_unvalidated(url, quality, ret) ==
    LET task_id == nextId + 1
    IN  /\ ret = Some(task_id)
        /\ nextId' = task_id
        /\ args' = [args EXCEPT ![task_id] = Some([url |-> url, quality |-> quality])]
        /\ active_downloads' = active_downloads \cup {task_id}
        /\ pc' = [pc EXCEPT ![task_id] = "extract"]
        /\ UNCHANGED <<download_opts, video_info, queue>>

\* the body of DownloadManager.add_download: the returned value and the
\* effect on the orchestrator
add_download(url, quality, ret) ==
    IF ~UrlTable[url].valid
    THEN /\ ret = None
         /\ UNCHANGED dm_vars
    ELSE LET task_id == nextId + 1
         IN  /\ ret = Some(task_id)
             /\ nextId' = task_id
             /\ args' = [args EXCEPT ![task_id] =
                            Some([url |-> UrlTable[url].normalized[1], quality |-> quality])]
             /\ active_downloads' = active_downloads \cup {task_id}
             /\ pc' = [pc EXCEPT ![task_id] = "extract"]
             /\ UNCHANGED <<download_opts, video_info, queue>>

\* the body of DownloadManager.cancel_download
cancel_download(task_id, ret) ==
    IF task_id \in active_downloads
    THEN /\ ret = TRUE
         /\ IF task_id \in DOMAIN download_opts
            THEN download_opts' = [download_opts EXCEPT ![task_id].cancelled = TRUE]
            ELSE UNCHANGED download_opts
         /\ UNCHANGED <<active_downloads, nextId, pc, args, video_info, queue>>
    ELSE /\ ret = FALSE
         /\ UNCHANGED dm_vars

\* a caller invokes DownloadManager.add_download(url, quality)
DM_add_download(url, quality) ==
    /\ UrlTable[url].valid => nextId < MaxTasks
    /\ \E ret \in {None} \cup {Some(t) : t \in TaskIds} :
          /\ add_download(url, quality, ret)
          /\ lastCall' = Call("add_download", url, ret, <<>>)
    /\ UNCHANGED vm_vars

\* a caller invokes DownloadManager.cancel_download(task_id)
DM_cancel_download(task_id) ==
    /\ \E ret \in BOOLEAN :
          /\ cancel_download(task_id, ret)
          /\ lastCall' = Call("cancel_download", task_id, ret, <<>>)
    /\ UNCHANGED vm_vars

\* DownloadManager._extract_info, after the metadata-only call returned info
\* (None for an empty result)
extract_info(info, url) ==
    IF info = None THEN None
    ELSE LET i == info[1]
             title == IF i.title # None /\ i.title[1] # <<>> THEN i.title[1] ELSE T_Unbekannt
             uploader == IF i.uploader # None /\ i.uploader[1] # <<>>
                         THEN i.uploader[1] ELSE T_Unbekannt
             safe_title == sanitize_filename(title, MaxFilenameLength)
         IN  Some([ VideoInfo(IF i.id # None THEN i.id[1] ELSE <<>>, title, uploader) EXCEPT
                      !.upload_date = i.upload_date,
                      !.duration = IF i.duration # None THEN i.duration[1] ELSE 0,
                      !.thumbnail_url = IF i.thumbnail # None THEN i.thumbnail[1] ELSE "",
                      !.filename = safe_title \o T_mp4,
                      !.quality = "best",
                      !.url = url,
                      !.status = "pending" ])

\* the progress hook of _make_progress_hook on the dict d: the signal it
\* emits, nothing, or the TypeError of comparing None with 0
\* a progress hook that reports a transfer of unknown size as one at 0 percent
progress_hook_unsized(d) ==
    IF d.status = "downloading"
    THEN LET total == IF Truthy(d.total_bytes) THEN d.total_bytes
                      ELSE IF d.total_bytes_estimate.k = "absent" THEN PyInt(0)
                      ELSE d.total_bytes_estimate
             downloaded == d.downloaded_bytes
         IN  IF total.k # "int" THEN [kind |-> "raise"]
             ELSE IF total.v > 0
             THEN [kind |-> "emit",
                   progress |-> (downloaded * 100) \div total.v,
                   speed |-> IF Truthy(d.speed) THEN d.speed.v ELSE 0]
             ELSE [kind |-> "emit", progress |-> 0, speed |-> 0]
    ELSE IF d.status = "finished"
    THEN [kind |-> "emit", progress |-> 100, speed |-> 0]
    ELSE [kind |-> "skip"]

progress_hook(d) ==
    IF d.status = "downloading"
    THEN LET total == IF Truthy(d.total_bytes) THEN d.total_bytes
                      ELSE IF d.total_bytes_estimate.k = "absent" THEN PyInt(0)
                      ELSE d.total_bytes_estimate
             downloaded == d.downloaded_bytes
         IN  IF total.k # "int" THEN [kind |-> "raise"]
             ELSE IF total.v > 0
             THEN [kind |-> "emit",
                   progress |-> (downloaded * 100) \div total.v,
                   speed |-> IF Truthy(d.speed) THEN d.speed.v ELSE 0]
             ELSE [kind |-> "skip"]
    ELSE IF d.status = "finished"
    THEN [kind |-> "emit", progress |-> 100, speed |-> 0]
    ELSE [kind |-> "skip"]

\* _get_format_selector
\* a _get_format_selector that hands an unlisted quality on as the selector
get_format_selector_verbatim(quality) ==
    CASE quality = "best" -> "best"
      [] quality = "1080p" -> "best[height<=1080]"
      [] quality = "720p" -> "best[height<=720]"
      [] quality = "480p" -> "best[height<=480]"
      [] quality = "360p" -> "best[height<=360]"
      [] quality = "audio" -> "bestaudio/best"
      [] OTHER -> quality

get_format_selector(quality) ==
    CASE quality = "best" -> "best"
      [] quality = "1080p" -> "best[height<=1080]"
      [] quality = "720p" -> "best[height<=720]"
      [] quality = "480p" -> "best[height<=480]"
      [] quality = "360p" -> "best[height<=360]"
      [] quality = "audio" -> "bestaudio/best"
      [] OTHER -> "best"

\* the thread function returns: its arguments and locals are gone
Return(t) ==
    /\ args' = [args EXCEPT ![t] = None]
    /\ video_info' = [video_info EXCEPT ![t] = None]

\* the finally block of _download_worker
Cleanup(t) ==
    /\ active_downloads' = active_downloads \ {t}
    /\ download_opts' = Remove(download_opts, t)

\* lines 78-84: the metadata-only call returns or raises
W_Extract(t) ==
    /\ pc[t] = "extract"
    /\ \/ \* _extract_info raises
          /\ Emit(t, [sig |-> "download_error", error |-> "Fehler beim Laden der Metadaten"])
          /\ pc' = [pc EXCEPT ![t] = "done"]
          /\ Return(t)
       \/ \* it returns: None for an empty result, else a VideoInfo
          \E info \in {None} \cup {Some(i) : i \in ExtractInfos(args[t][1].url)} :
             LET v == extract_info(info, args[t][1].url)
             IN  /\ video_info' = [video_info EXCEPT ![t] = v]
                 /\ IF v # None
                    THEN Emit(t, [sig |-> "info_extracted", video_info |-> v[1]])
                    ELSE UNCHANGED queue
                 /\ pc' = [pc EXCEPT ![t] = "downloading"]
                 /\ UNCHANGED args
    /\ UNCHANGED <<active_downloads, download_opts, nextId, vm_vars>>
    /\ lastCall' = NoCall

\* line 87
W_Downloading(t) ==
    /\ pc[t] = "downloading"
    /\ Emit(t, [sig |-> "status_changed", status |-> "downloading"])
    /\ pc' = [pc EXCEPT ![t] = "register"]
    /\ UNCHANGED <<active_downloads, download_opts, nextId, args, video_info, vm_vars>>
    /\ lastCall' = NoCall

\* lines 90-101: the transfer handle is created and registered
W_Register(t) ==
    /\ pc[t] = "register"
    /\ download_opts' = Put(download_opts, t,
                            [format |-> get_format_selector(args[t][1].quality),
                             cancelled |-> FALSE])
    /\ pc' = [pc EXCEPT ![t] = "transfer"]
    /\ UNCHANGED <<active_downloads, nextId, args, video_info, queue, vm_vars>>
    /\ lastCall' = NoCall

\* number of progress_updated signals of task t waiting for their slot
Pending(t) ==
    Cardinality({ i \in 1 .. Len(queue[t]) : queue[t][i].sig = "progress_updated" })

\* a hook that may already run before line 87 announced the transfer
W_Hook_early(t, d) ==
    /\ pc[t] \in {"downloading", "transfer"}
    /\ Pending(t) < MaxPending
    /\ LET r == progress_hook(d)
       IN  IF r.kind = "emit"
           THEN Emit(t, [sig |-> "progress_updated", progress |-> r.progress,
                         speed |-> r.speed])
           ELSE UNCHANGED queue
    /\ UNCHANGED <<active_downloads, download_opts, nextId, pc, args, video_info, vm_vars>>
    /\ lastCall' = NoCall

\* the transfer call invokes the progress hook with d
W_Hook(t, d) ==
    /\ pc[t] = "transfer"
    /\ Pending(t) < MaxPending
    /\ LET r == progress_hook(d)
       IN  CASE r.kind = "emit" ->
                  /\ Emit(t, [sig |-> "progress_updated", progress |-> r.progress,
                              speed |-> r.speed])
                  /\ UNCHANGED pc
             [] r.kind = "skip" -> UNCHANGED <<queue, pc>>
             [] r.kind = "raise" ->
                  \* the error leaves the transfer call: lines 129-130
                  /\ Emit(t, [sig |-> "download_error", error |-> "Unerwarteter Fehler"])
                  /\ pc' = [pc EXCEPT ![t] = "finally"]
    /\ UNCHANGED <<active_downloads, download_opts, nextId, args, video_info, vm_vars>>
    /\ lastCall' = NoCall

\* a transfer result handled without the else branch of lines 122-123: an
\* empty result, or one without extracted metadata, is dropped silently
W_TransferReturns_silent(t) ==
    /\ pc[t] = "transfer"
    /\ \E info \in {None} \cup {Some(i) : i \in TransferInfos} :
          IF info # None /\ video_info[t] # None
          THEN /\ Emit(t, [sig |-> "download_finished",
                           metadata |-> to_dict(video_info[t][1])])
               /\ pc' = [pc EXCEPT ![t] = "completed"]
          ELSE /\ UNCHANGED queue
               /\ pc' = [pc EXCEPT ![t] = "finally"]
    /\ UNCHANGED <<active_downloads, download_opts, nextId, args, video_info, vm_vars>>
    /\ lastCall' = NoCall

\* lines 104-123: the transfer call returns info (None for an empty result)
W_TransferReturns(t) ==
    /\ pc[t] = "transfer"
    /\ \E info \in {None} \cup {Some(i) : i \in TransferInfos} :
          IF info # None /\ video_info[t] # None
          THEN LET i == info[1]
                   v == [ video_info[t][1] EXCEPT
                            !.filename = i.prepared,
                            \* str(output_dir / filename), filename being absolute
                            !.filepath = i.prepared,
                            !.file_size =
                                IF Truthy(i.filesize) THEN i.filesize.v
                                ELSE IF i.filesize_approx.k = "int"
                                THEN i.filesize_approx.v ELSE 0,
                            !.status = "completed",
                            !.progress = 100 ]
               IN  /\ video_info' = [video_info EXCEPT ![t] = Some(v)]
                   /\ Emit(t, [sig |-> "download_finished", metadata |-> to_dict(v)])
                   /\ pc' = [pc EXCEPT ![t] = "completed"]
          ELSE /\ Emit(t, [sig |-> "download_error", error |-> "Download fehlgeschlagen"])
               /\ pc' = [pc EXCEPT ![t] = "finally"]
               /\ UNCHANGED video_info
    /\ UNCHANGED <<active_downloads, download_opts, nextId, args, vm_vars>>
    /\ lastCall' = NoCall

\* line 121
W_Completed(t) ==
    /\ pc[t] = "completed"
    /\ Emit(t, [sig |-> "status_changed", status |-> "completed"])
    /\ pc' = [pc EXCEPT ![t] = "finally"]
    /\ UNCHANGED <<active_downloads, download_opts, nextId, args, video_info, vm_vars>>
    /\ lastCall' = NoCall

\* a DownloadCancelled that is also reported as a failure
W_TransferCancelled_failed(t) ==
    /\ pc[t] = "transfer"
    /\ download_opts[t].cancelled
    /\ queue' = [queue EXCEPT ![t] =
                    @ \o << [sig |-> "status_changed", status |-> "cancelled"],
                            [sig |-> "download_error", error |-> "Unerwarteter Fehler"] >>]
    /\ pc' = [pc EXCEPT ![t] = "finally"]
    /\ UNCHANGED <<active_downloads, download_opts, nextId, args, video_info, vm_vars>>
    /\ lastCall' = NoCall

\* lines 125-126: the transfer call raises DownloadCancelled, which the
\* collaborator does once cancel() was called on its handle
W_TransferCancelled(t) ==
    /\ pc[t] = "transfer"
    /\ download_opts[t].cancelled
    /\ Emit(t, [sig |-> "status_changed", status |-> "cancelled"])
    /\ pc' = [pc EXCEPT ![t] = "finally"]
    /\ UNCHANGED <<active_downloads, download_opts, nextId, args, video_info, vm_vars>>
    /\ lastCall' = NoCall

\* a transfer error reported as a cancellation
W_TransferRaises_cancelled(t) ==
    /\ pc[t] = "transfer"
    /\ Emit(t, [sig |-> "status_changed", status |-> "cancelled"])
    /\ pc' = [pc EXCEPT ![t] = "finally"]
    /\ UNCHANGED <<active_downloads, download_opts, nextId, args, video_info, vm_vars>>
    /\ lastCall' = NoCall

\* lines 127-130: the transfer call raises DownloadError or another exception
W_TransferRaises(t) ==
    /\ pc[t] = "transfer"
    /\ \E msg \in {"DownloadError", "Unerwarteter Fehler"} :
          Emit(t, [sig |-> "download_error", error |-> msg])
    /\ pc' = [pc EXCEPT ![t] = "finally"]
    /\ UNCHANGED <<active_downloads, download_opts, nextId, args, video_info, vm_vars>>
    /\ lastCall' = NoCall

\* lines 131-134
W_Finally(t) ==
    /\ pc[t] = "finally"
    /\ Cleanup(t)
    /\ pc' = [pc EXCEPT ![t] = "done"]
    /\ Return(t)
    /\ UNCHANGED <<nextId, queue, vm_vars>>
    /\ lastCall' = NoCall

\* one step of the worker thread of task t
Worker(t) ==
    \/ W_Extract(t)
    \/ W_Downloading(t)
    \/ W_Register(t)
    \/ \E d \in HookInputs : W_Hook(t, d)
    \/ W_TransferReturns(t)
    \/ W_Completed(t)
    \/ W_TransferCancelled(t)
    \/ W_TransferRaises(t)
    \/ W_Finally(t)

(***************************************************************************)
(* The orchestrator driven directly through its public API.                *)
(***************************************************************************)
NextDM ==
    \/ \E s \in Submissions : DM_add_download(s.url, s.quality)
    \/ \E task_id \in TaskIds : DM_cancel_download(task_id)
    \/ \E t \in TaskIds : Worker(t)

SpecDM == Init /\ [][NextDM]_vars

(***************************************************************************)
(* services/metadata_handler.py                                            *)
(***************************************************************************)
\* json.dump of a dict of to_dict(): None is written as null, an int as a
\* number, a str as a string
json_dump_entry(d) ==
    [ f \in DOMAIN d |->
        IF f \in {"upload_date", "downloaded_at"}
        THEN (IF d[f] = None THEN [t |-> "null"] ELSE [t |-> "string", v |-> d[f][1]])
        ELSE IF f \in {"duration", "file_size"}
        THEN [t |-> "number", v |-> d[f]]
        ELSE [t |-> "string", v |-> d[f]] ]

json_dump(lib) == [k \in DOMAIN lib |-> json_dump_entry(lib[k])]

\* json.load: null is read as None, the other values as they were written
json_load_entry(j) ==
    [ f \in DOMAIN j |->
        IF f \in {"upload_date", "downloaded_at"}
        THEN (IF j[f].t = "null" THEN None ELSE Some(j[f].v))
        ELSE j[f].v ]

json_load(text) == [k \in DOMAIN text |-> json_load_entry(text[k])]

\* load_library: a missing or unreadable file is an empty library
load_library == IF library.kind = "ok" THEN json_load(library.data) ELSE <<>>

\* the timestamps datetime.now() returns in the model
Clock == { [s |-> 1, us |-> 0], [s |-> 2, us |-> 500] }

\* a save_metadata that writes a file holding the new entry alone
save_metadata_fresh(v, ret) ==
    \/ /\ library' = [kind |-> "ok", data |-> json_dump(Put(<<>>, v.video_id, to_dict(v)))]
       /\ ret = TRUE
    \/ /\ UNCHANGED library
       /\ ret = FALSE

\* a save_metadata that reports a write that failed half-way as done
save_metadata_unreported(v, ret) ==
    LET lib == Put(load_library, v.video_id, to_dict(v))
    IN  \/ /\ library' = [kind |-> "ok", data |-> json_dump(lib)]
           /\ ret = TRUE
        \/ /\ UNCHANGED library
           /\ ret = FALSE
        \/ /\ library' = [kind |-> "corrupt"]
           /\ ret = TRUE

\* save_metadata(video_info): the new file and the returned value; the write
\* succeeds, or fails before the file is touched, or fails half-way
save_metadata(v, ret) ==
    LET lib == Put(load_library, v.video_id, to_dict(v))
    IN  \/ /\ library' = [kind |-> "ok", data |-> json_dump(lib)]
           /\ ret = TRUE
        \/ /\ UNCHANGED library
           /\ ret = FALSE
        \/ /\ library' = [kind |-> "corrupt"]
           /\ ret = FALSE

\* get_video_metadata(video_id)
get_video_metadata(video_id) ==
    IF video_id \in DOMAIN load_library
    THEN Some(from_dict(load_library[video_id]))
    ELSE None

\* get_all_videos(): the records of the list it returns
get_all_videos == { from_dict(load_library[k]) : k \in DOMAIN load_library }

UpperSeq == <<"A","B","C","D","E","F","G","H","I","J","K","L","M",
              "N","O","P","Q","R","S","T","U","V","W","X","Y","Z">>
LowerSeq == <<"a","b","c","d","e","f","g","h","i","j","k","l","m",
              "n","o","p","q","r","s","t","u","v","w","x","y","z">>

\* str.lower()
lower(str) ==
    [ i \in 1 .. Len(str) |->
        IF \E k \in 1 .. 26 : UpperSeq[k] = str[i]
        THEN LowerSeq[CHOOSE k \in 1 .. 26 : UpperSeq[k] = str[i]]
        ELSE str[i] ]

\* sub in str
Contains(sub, str) ==
    \E i \in 0 .. Len(str) - Len(sub) : SubSeq(str, i + 1, i + Len(sub)) = sub

\* a search_videos that compares the query as typed
search_videos_as_typed(query) ==
    { from_dict(load_library[k]) :
        k \in { x \in DOMAIN load_library :
                  \/ Contains(query, lower(load_library[x].title))
                  \/ Contains(query, lower(load_library[x].uploader)) } }

\* search_videos(query): the records of the list it returns
search_videos(query) ==
    LET query_lower == lower(query)
    IN  { from_dict(load_library[k]) :
            k \in { x \in DOMAIN load_library :
                      \/ Contains(query_lower, lower(load_library[x].title))
                      \/ Contains(query_lower, lower(load_library[x].uploader)) } }

\* remove_metadata(video_id): the file is rewritten only when the entry is
\* there; the write succeeds, or fails before or after the file is touched
remove_metadata(video_id, ret) ==
    IF video_id \in DOMAIN load_library
    THEN \/ /\ library' = [kind |-> "ok", data |-> json_dump(Remove(load_library, video_id))]
            /\ ret = TRUE
         \/ /\ UNCHANGED library
            /\ ret = FALSE
         \/ /\ library' = [kind |-> "corrupt"]
            /\ ret = FALSE
    ELSE /\ UNCHANGED library
         /\ ret = TRUE

\* the records a caller saves: completed downloads of two videos, with and
\* without upload date and completion time
StoreRecords ==
    { [ VideoInfo(id, title, T_Vevo) EXCEPT
          !.upload_date = upload_date, !.downloaded_at = downloaded_at,
          !.filename = T_Prepared, !.filepath = T_Prepared, !.quality = "720p",
          !.file_size = 1000, !.status = "completed", !.progress = 100 ] :
        id \in {IdA, IdB}, title \in {T_Music, T_Unbekannt},
        upload_date \in {None, Some("20240101")},
        downloaded_at \in {None} \cup {Some(now) : now \in Clock} }

\* a caller invokes MetadataHandler.save_metadata(v)
MH_save_metadata(v) ==
    /\ \E ret \in BOOLEAN :
          /\ save_metadata(v, ret)
          /\ lastCall' = Call("save_metadata", v, ret, <<>>)
    /\ UNCHANGED <<dm_vars, downloads, main>>

\* a caller invokes MetadataHandler.remove_metadata(video_id)
MH_remove_metadata(video_id) ==
    /\ \E ret \in BOOLEAN :
          /\ remove_metadata(video_id, ret)
          /\ lastCall' = Call("remove_metadata", video_id, ret, <<>>)
    /\ UNCHANGED <<dm_vars, downloads, main>>

\* what a call of a reading operation comes to: the value it returns, or the
\* KeyError of VideoInfo.from_dict on an entry without video_id or title
Returned(value) == [raised |-> FALSE, value |-> value]
Raised == [raised |-> TRUE, value |-> None]
from_dict_raises(data) == ~ ({"video_id", "title"} \subseteq DOMAIN data)

\* a caller invokes MetadataHandler.load_library()
MH_load_library ==
    /\ lastCall' = Call("load_library", None, Returned(load_library), <<>>)
    /\ UNCHANGED <<dm_vars, downloads, library, main>>

\* a caller invokes MetadataHandler.get_video_metadata(video_id)
MH_get_video_metadata(video_id) ==
    /\ lastCall' = Call("get_video_metadata", video_id,
                        IF /\ video_id \in DOMAIN load_library
                           /\ from_dict_raises(load_library[video_id])
                        THEN Raised
                        ELSE Returned(get_video_metadata(video_id)), <<>>)
    /\ UNCHANGED <<dm_vars, downloads, library, main>>

\* a caller invokes MetadataHandler.get_all_videos()
MH_get_all_videos ==
    /\ lastCall' = Call("get_all_videos", None,
                        IF \E k \in DOMAIN load_library : from_dict_raises(load_library[k])
                        THEN Raised
                        ELSE Returned(get_all_videos), <<>>)
    /\ UNCHANGED <<dm_vars, downloads, library, main>>

\* the query strings a caller searches for
Queries ==
    { <<>>, <<"m","u","s","i","c">>, <<"M","U","S","I","C">>, <<"c",":"," ","a">>,
      <<"v","e","v","o">>, <<"U","n","b","e">>, <<"x","y","z">> }

\* a caller invokes MetadataHandler.search_videos(query)
MH_search_videos(query) ==
    /\ lastCall' = Call("search_videos", query,
                        IF \E k \in DOMAIN load_library :
                              /\ \/ Contains(lower(query), lower(load_library[k].title))
                                 \/ Contains(lower(query), lower(load_library[k].uploader))
                              /\ from_dict_raises(load_library[k])
                        THEN Raised
                        ELSE Returned(search_videos(query)), <<>>)
    /\ UNCHANGED <<dm_vars, downloads, library, main>>

(***************************************************************************)
(* The metadata store driven directly through its public API.              *)
(***************************************************************************)
NextStore ==
    \/ \E v \in StoreRecords : MH_save_metadata(v)
    \/ \E video_id \in {IdA, IdB} : MH_remove_metadata(video_id)
    \/ \E query \in Queries : MH_search_videos(query)
    \/ MH_load_library
    \/ \E video_id \in {IdA, IdB} : MH_get_video_metadata(video_id)
    \/ MH_get_all_videos

SpecStore == Init /\ [][NextStore]_vars

(***************************************************************************)
(* viewmodels/main_viewmodel.py                                            *)
(***************************************************************************)
\* "Wird geladen..."
T_Loading == <<"W","i","r","d"," ","g","e","l","a","d","e","n",".",".",".">>

get_active_count ==
    Cardinality({ t \in DOMAIN downloads : downloads[t].status \in {"pending", "downloading"} })

get_completed_count ==
    Cardinality({ t \in DOMAIN downloads : downloads[t].status = "completed" })

\* a signal of MainViewModel about task_id
Signal(sig, task_id) == [sig |-> sig, task_id |-> task_id]

\* status_changed.emit(task_id, status)
StatusSignal(task_id, status) ==
    [sig |-> "status_changed", task_id |-> Some(task_id), status |-> status]

\* MainViewModel.add_download handing every URL to the orchestrator, whose
\* rejection it ignores silently (lines 61-63 missing)
VM_add_download_silent(url, quality) ==
    /\ UrlTable[url].valid => nextId < MaxTasks
    /\ \E task_id \in {None} \cup {Some(t) : t \in TaskIds} :
          /\ add_download(url, quality, task_id)
          /\ IF task_id # None
             THEN /\ downloads' = Put(downloads, task_id[1],
                                      [ VideoInfo(<<>>, T_Loading, <<>>) EXCEPT
                                          !.url = url, !.quality = quality ])
                  /\ lastCall' = Call("add_download", url, task_id,
                                      << Signal("download_added", task_id),
                                         Signal("queue_updated", None) >>)
             ELSE /\ UNCHANGED downloads
                  /\ lastCall' = Call("add_download", url, task_id, <<>>)
    /\ UNCHANGED <<library, main>>

\* MainViewModel.add_download(url, quality)
VM_add_download(url, quality) ==
    IF ~UrlTable[url].valid
    THEN /\ lastCall' = Call("add_download", url, None, << Signal("download_error", None) >>)
         /\ UNCHANGED <<dm_vars, downloads, library, main>>
    ELSE /\ nextId < MaxTasks
         /\ LET video_id == IF UrlTable[url].video_id # None
                            THEN UrlTable[url].video_id[1] ELSE <<>>
                temp_video == [ VideoInfo(video_id, T_Loading, <<>>) EXCEPT
                                  !.url = url, !.quality = quality, !.status = "pending" ]
            IN  \E task_id \in {None} \cup {Some(t) : t \in TaskIds} :
                   /\ add_download(url, quality, task_id)
                   /\ IF task_id # None
                      THEN /\ downloads' = Put(downloads, task_id[1], temp_video)
                           /\ lastCall' = Call("add_download", url, task_id,
                                               << Signal("download_added", task_id),
                                                  Signal("queue_updated", None) >>)
                      ELSE /\ UNCHANGED downloads
                           /\ lastCall' = Call("add_download", url, task_id, <<>>)
         /\ UNCHANGED <<library, main>>

\* a cancel_download that marks the record only when the orchestrator
\* confirms the cancellation, and returns the orchestrator's answer
VM_cancel_download_confirmed(task_id) ==
    IF task_id \in DOMAIN downloads
    THEN \E r \in BOOLEAN :
            /\ cancel_download(task_id, r)
            /\ downloads' = IF r THEN [downloads EXCEPT ![task_id].status = "cancelled"]
                            ELSE downloads
            /\ lastCall' = Call("cancel_download", task_id, r,
                                IF r THEN << StatusSignal(task_id, "cancelled") >> ELSE <<>>)
            /\ UNCHANGED <<library, main>>
    ELSE /\ lastCall' = Call("cancel_download", task_id, FALSE, <<>>)
         /\ UNCHANGED <<dm_vars, downloads, library, main>>

\* MainViewModel.cancel_download(task_id)
VM_cancel_download(task_id) ==
    IF task_id \in DOMAIN downloads
    THEN /\ \E r \in BOOLEAN : cancel_download(task_id, r)
         /\ downloads' = [downloads EXCEPT ![task_id].status = "cancelled"]
         /\ lastCall' = Call("cancel_download", task_id, TRUE,
                             << StatusSignal(task_id, "cancelled") >>)
         /\ UNCHANGED <<library, main>>
    ELSE /\ lastCall' = Call("cancel_download", task_id, FALSE, <<>>)
         /\ UNCHANGED <<dm_vars, downloads, library, main>>

\* a remove_download that also deletes the library entries
VM_remove_download_purging(task_id) ==
    IF task_id \in DOMAIN downloads
    THEN /\ UNCHANGED dm_vars
         /\ downloads' = Remove(downloads, task_id)
         /\ lastCall' = Call("remove_download", task_id, TRUE,
                             << Signal("queue_updated", None) >>)
         /\ library' = IF library.kind = "ok" THEN [kind |-> "ok", data |-> <<>>]
                       ELSE library
         /\ UNCHANGED main
    ELSE /\ lastCall' = Call("remove_download", task_id, FALSE, <<>>)
         /\ UNCHANGED <<dm_vars, downloads, library, main>>

\* a remove_download that keeps the record and only marks it cancelled
VM_remove_download_hiding(task_id) ==
    IF task_id \in DOMAIN downloads
    THEN /\ \E r \in BOOLEAN : cancel_download(task_id, r)
         /\ downloads' = [downloads EXCEPT ![task_id].status = "cancelled"]
         /\ lastCall' = Call("remove_download", task_id, TRUE,
                             << Signal("queue_updated", None) >>)
         /\ UNCHANGED <<library, main>>
    ELSE /\ lastCall' = Call("remove_download", task_id, FALSE, <<>>)
         /\ UNCHANGED <<dm_vars, downloads, library, main>>

\* MainViewModel.remove_download(task_id), with the cancel_download it calls
\* for a record that is pending or downloading
VM_remove_download(task_id) ==
    IF task_id \in DOMAIN downloads
    THEN LET active == downloads[task_id].status \in {"pending", "downloading"}
         IN  /\ IF active
                THEN \E r \in BOOLEAN : cancel_download(task_id, r)
                ELSE UNCHANGED dm_vars
             /\ downloads' = Remove(downloads, task_id)
             /\ lastCall' = Call("remove_download", task_id, TRUE,
                                 (IF active THEN << StatusSignal(task_id, "cancelled") >>
                                  ELSE <<>>) \o << Signal("queue_updated", None) >>)
             /\ UNCHANGED <<library, main>>
    ELSE /\ lastCall' = Call("remove_download", task_id, FALSE, <<>>)
         /\ UNCHANGED <<dm_vars, downloads, library, main>>

\* a slot that writes the change into every record of the map
Fold_all(slot, task_id, record, sig) ==
    IF task_id \in DOMAIN downloads
    THEN /\ downloads' = [t \in DOMAIN downloads |-> record]
         /\ lastCall' = Call(slot, task_id, None, << sig >>)
    ELSE /\ UNCHANGED downloads
         /\ lastCall' = Call(slot, task_id, None, <<>>)

\* a slot: when the task is in the map, the change of its record and the
\* signal re-emitted; else nothing
Fold(slot, task_id, record, sig) ==
    IF task_id \in DOMAIN downloads
    THEN /\ downloads' = [downloads EXCEPT ![task_id] = record]
         /\ lastCall' = Call(slot, task_id, None, << sig >>)
    ELSE /\ UNCHANGED downloads
         /\ lastCall' = Call(slot, task_id, None, <<>>)

\* _on_info_extracted
on_info_extracted(task_id, v) ==
    /\ Fold("_on_info_extracted", task_id,
            [downloads[task_id] EXCEPT !.video_id = v.video_id, !.title = v.title,
                                       !.uploader = v.uploader, !.duration = v.duration,
                                       !.thumbnail_url = v.thumbnail_url],
            Signal("metadata_updated", Some(task_id)))
    /\ UNCHANGED library

\* _on_progress
on_progress(task_id, progress, speed) ==
    /\ Fold("_on_progress", task_id,
            [downloads[task_id] EXCEPT !.progress = progress, !.speed = speed],
            Signal("progress_updated", Some(task_id)))
    /\ UNCHANGED library

\* _on_status_changed
on_status_changed(task_id, status) ==
    /\ Fold("_on_status_changed", task_id,
            [downloads[task_id] EXCEPT !.status = status],
            StatusSignal(task_id, status))
    /\ UNCHANGED library

\* an _on_download_finished that reports a failed write as a failed download
on_download_finished_strict(task_id, metadata) ==
    IF task_id \in DOMAIN downloads
    THEN \E now \in Clock, saved \in BOOLEAN :
            /\ save_metadata([from_dict(metadata) EXCEPT !.downloaded_at = Some(now)], saved)
            /\ IF saved
               THEN Fold("_on_download_finished", task_id,
                         [downloads[task_id] EXCEPT !.status = "completed", !.progress = 100],
                         Signal("download_completed", Some(task_id)))
               ELSE Fold("_on_download_finished", task_id,
                         [downloads[task_id] EXCEPT !.status = "error"],
                         Signal("download_error", Some(task_id)))
    ELSE /\ lastCall' = Call("_on_download_finished", task_id, None, <<>>)
         /\ UNCHANGED <<downloads, library>>

\* _on_download_finished
on_download_finished(task_id, metadata) ==
    /\ Fold("_on_download_finished", task_id,
            [downloads[task_id] EXCEPT !.status = "completed", !.progress = 100],
            Signal("download_completed", Some(task_id)))
    /\ IF task_id \in DOMAIN downloads
       THEN \E now \in Clock, saved \in BOOLEAN :
               LET full_info == [from_dict(metadata) EXCEPT !.downloaded_at = Some(now)]
               IN  save_metadata(full_info, saved)
       ELSE UNCHANGED library

\* _on_download_error
on_download_error(task_id, error) ==
    /\ Fold("_on_download_error", task_id,
            [downloads[task_id] EXCEPT !.status = "error", !.error_message = error],
            Signal("download_error", Some(task_id)))
    /\ UNCHANGED library

\* the event loop of the main thread runs the slot connected to the oldest
\* queued signal of task t (_connect_signals)
Deliver(t) ==
    /\ queue[t] # <<>>
    /\ LET e == Head(queue[t])
       IN  CASE e.sig = "info_extracted" -> on_info_extracted(t, e.video_info)
             [] e.sig = "progress_updated" -> on_progress(t, e.progress, e.speed)
             [] e.sig = "status_changed" -> on_status_changed(t, e.status)
             [] e.sig = "download_finished" -> on_download_finished(t, e.metadata)
             [] e.sig = "download_error" -> on_download_error(t, e.error)
    /\ queue' = [queue EXCEPT ![t] = Tail(@)]
    /\ UNCHANGED <<active_downloads, download_opts, nextId, pc, args, video_info, main>>

(***************************************************************************)
(* The application: the presentation layer calls MainViewModel, the        *)
(* workers run, and the main thread handles the queued signals.  Signals   *)
(* of different tasks are handled in any order: the workers post them      *)
(* independently of each other, so every order of posting occurs.          *)
(***************************************************************************)
Next ==
    \/ \E s \in Submissions :
          /\ UrlTable[s.url].valid => nextId < MaxSessions
          /\ VM_add_download(s.url, s.quality)
    \/ \E task_id \in TaskIds : VM_cancel_download(task_id)
    \/ \E task_id \in TaskIds : VM_remove_download(task_id)
    \/ \E t \in TaskIds : Worker(t)
    \/ \E t \in TaskIds : Deliver(t)

Spec == Init /\ [][Next]_vars

(***************************************************************************)
(* Two downloads in one session, one after the other: the second is        *)
(* submitted when the worker of the first has returned and its signals     *)
(* have been handled.  The slots and the calls of MainViewModel run one at *)
(* a time on the main thread and reach a record by its task id, so what    *)
(* they do to the record of one task does not depend on how far the other  *)
(* task has come.  Both downloads are of the same video, so that their     *)
(* records agree on video_id, and a worker has one progress signal less    *)
(* waiting than in the other runs.                                         *)
(***************************************************************************)
Quiescent(t) == pc[t] = "done" /\ queue[t] = <<>>

SubmissionsPair ==
    { s \in Submissions : s.url \in {UrlShort, UrlFtp} }

NextPair ==
    \/ \E s \in SubmissionsPair :
          /\ UrlTable[s.url].valid /\ nextId >= 1 => Quiescent(nextId)
          /\ VM_add_download(s.url, s.quality)
    \/ \E task_id \in TaskIds : VM_cancel_download(task_id)
    \/ \E task_id \in TaskIds : VM_remove_download(task_id)
    \/ \E t \in TaskIds : Worker(t) /\ Pending(t)' < MaxPending
    \/ \E t \in TaskIds : Deliver(t)

SpecPair == Init /\ [][NextPair]_vars

(***************************************************************************)
(* MainViewModel.add_download in two steps, with the workers running       *)
(* between them: the thread the orchestrator starts at line 59 runs while  *)
(* the main thread is still on its way from line 77 to line 80.  The slots *)
(* and the other calls of MainViewModel run on the main thread, from its   *)
(* event loop, and so never between the two steps.                         *)
(***************************************************************************)
\* lines 61-77: the validity check, the placeholder record and the call of
\* DownloadManager.add_download
VM_add_download_call(url, quality) ==
    IF ~UrlTable[url].valid
    THEN /\ lastCall' = Call("add_download", url, None, << Signal("download_error", None) >>)
         /\ UNCHANGED <<dm_vars, downloads, library, main>>
    ELSE /\ nextId < MaxTasks
         /\ LET video_id == IF UrlTable[url].video_id # None
                            THEN UrlTable[url].video_id[1] ELSE <<>>
                temp_video == [ VideoInfo(video_id, T_Loading, <<>>) EXCEPT
                                  !.url = url, !.quality = quality, !.status = "pending" ]
            IN  \E task_id \in {None} \cup {Some(t) : t \in TaskIds} :
                   /\ add_download(url, quality, task_id)
                   /\ main' = Some([url |-> url, task_id |-> task_id,
                                    temp_video |-> temp_video])
         /\ lastCall' = NoCall
         /\ UNCHANGED <<downloads, library>>

\* lines 79-84: the record is put into the map, the signals are emitted and
\* the call returns
VM_add_download_return ==
    /\ main # None
    /\ LET task_id == main[1].task_id
       IN  IF task_id # None
           THEN /\ downloads' = Put(downloads, task_id[1], main[1].temp_video)
                /\ lastCall' = Call("add_download", main[1].url, task_id,
                                    << Signal("download_added", task_id),
                                       Signal("queue_updated", None) >>)
           ELSE /\ UNCHANGED downloads
                /\ lastCall' = Call("add_download", main[1].url, task_id, <<>>)
    /\ main' = None
    /\ UNCHANGED <<dm_vars, library>>

\* a slot run in the thread that emits the signal, whatever the main thread
\* is doing
EventLoop_direct(t) == Deliver(t)

\* the event loop runs a slot when the main thread is in no other call
EventLoop(t) == main = None /\ Deliver(t)

NextAdd ==
    \/ \E s \in Submissions :
          /\ main = None
          /\ UrlTable[s.url].valid => nextId < MaxSessions
          /\ VM_add_download_call(s.url, s.quality)
    \/ VM_add_download_return
    \/ \E task_id \in TaskIds : main = None /\ VM_cancel_download(task_id)
    \/ \E task_id \in TaskIds : main = None /\ VM_remove_download(task_id)
    \/ \E t \in TaskIds : Worker(t)
    \/ \E t \in TaskIds : EventLoop(t)

SpecAdd == Init /\ [][NextAdd]_vars

(***************************************************************************)
(* The workers are threads the scheduler keeps running, and the             *)
(* collaborator's calls return: a worker that can take a step takes one,   *)
(* and the transfer call of line 104 does not invoke the hooks forever.    *)
(***************************************************************************)
TransferEnds(t) ==
    W_TransferReturns(t) \/ W_TransferCancelled(t) \/ W_TransferRaises(t)

\* Whether a worker goes on does not depend on which video it was given: the
\* fair runs submit one valid and one invalid URL, to two concurrent workers.
SubmissionsFair ==
    { s \in Submissions : s.url \in {UrlShort, UrlFtp} }

NextDMFair ==
    \/ \E s \in SubmissionsFair : DM_add_download(s.url, s.quality)
    \/ \E task_id \in TaskIds : DM_cancel_download(task_id)
    \/ \E t \in TaskIds : Worker(t)

SpecDMFair ==
    /\ Init
    /\ [][NextDMFair]_vars
    /\ \A t \in TaskIds : WF_vars(Worker(t)) /\ WF_vars(TransferEnds(t))

(***************************************************************************)
(* Properties of the orchestrator.  Under SpecDM no slot is connected, so  *)
(* queue[t] is the whole sequence of signals emitted for task t.           *)
(***************************************************************************)
IsTerminal(e) ==
    \/ e.sig \in {"download_finished", "download_error"}
    \/ e.sig = "status_changed" /\ e.status = "cancelled"

\* the positions of the terminal signals among the signals of task t
Terminals(t) == { i \in 1 .. Len(queue[t]) : IsTerminal(queue[t][i]) }

\* the positions of the signals of task t with name sig
Positions(t, sig) == { i \in 1 .. Len(queue[t]) : queue[t][i].sig = sig }

IsStatus(e, status) == e.sig = "status_changed" /\ e.status = status

\* C1: over any execution of a worker and any interleaving with
\* cancel_download, the worker emits at most one terminal signal
\* (download_finished, download_error or status_changed "cancelled").
C1_AtMostOneTerminal ==
    \A t \in TaskIds : Cardinality(Terminals(t)) <= 1

\* a transfer that completed although cancel() had been called on its handle
C1_Witness ==
    \E t \in DOMAIN download_opts :
        /\ download_opts[t].cancelled
        /\ pc[t] = "finally"
        /\ Cardinality(Terminals(t)) = 1
        /\ IsStatus(queue[t][Len(queue[t])], "completed")

\* C2: with the worker scheduled fairly and the collaborator's calls
\* returning, every accepted task eventually emits a terminal signal.
C2_EventuallyTerminal ==
    \A t \in TaskIds : (pc[t] = "extract") ~> (Terminals(t) # {})

\* a worker that went through extraction and transfer and has returned
C2_Witness ==
    \E t \in TaskIds :
        /\ pc[t] = "done"
        /\ Positions(t, "info_extracted") # {}
        /\ Terminals(t) # {}

\* C3: once the worker of a task has reached a terminal outcome and has
\* finished running, the task id is a key neither of active_downloads nor of
\* download_opts.
C3_ReleasedWhenDone ==
    \A t \in TaskIds :
        pc[t] = "done" => t \notin active_downloads /\ t \notin DOMAIN download_opts

\* C4: DownloadManager.cancel_download returns true exactly when the task
\* was accepted and has emitted no terminal signal yet; false for an id never
\* issued and for a task whose terminal signal is out.
C4_CancelTrueIffActive ==
    lastCall.op = "cancel_download" =>
        (lastCall.ret <=> lastCall.arg <= nextId /\ Terminals(lastCall.arg) = {})

\* C5: MainViewModel.cancel_download of a task whose record is completed
\* returns false, leaves the status completed and leaves library.json as it is.
C5_CancelCompleted ==
    [][ \A t \in TaskIds :
          t \in DOMAIN downloads /\ downloads[t].status = "completed"
            /\ VM_cancel_download(t)
          => /\ lastCall'.ret = FALSE
             /\ downloads'[t].status = "completed"
             /\ library' = library ]_vars

\* the main thread has just handled the call add_download(url) of a URL the
\* validator rejects
RejectedCall ==
    /\ lastCall.op = "add_download"
    /\ ~UrlTable[lastCall.arg].valid

\* C6: DownloadManager.add_download of a URL the validator rejects returns no
\* task id, starts no worker, leaves active_downloads and the rest of the
\* orchestrator unchanged and emits no signal; no worker runs and no signal is
\* emitted for an id that was not issued, so none follows later either.
C6_InvalidUrlRejected ==
    /\ [][ \A s \in Submissions :
             ~UrlTable[s.url].valid /\ DM_add_download(s.url, s.quality)
             => lastCall'.ret = None /\ UNCHANGED dm_vars ]_vars
    /\ [](\A t \in TaskIds :
             t > nextId => pc[t] = "idle" /\ queue[t] = <<>> /\ t \notin active_downloads)

\* a rejected call while the worker of an earlier task is in its transfer
C6_Witness ==
    /\ RejectedCall
    /\ lastCall.ret = None
    /\ nextId = 1
    /\ pc[1] = "transfer"

\* C7: MainViewModel.add_download of an invalid URL emits exactly one signal,
\* download_error, returns None, leaves downloads and the orchestrator
\* unchanged, and emits neither download_added nor queue_updated.
C7_InvalidUrlOneError ==
    [][ \A s \in Submissions :
          ~UrlTable[s.url].valid /\ VM_add_download(s.url, s.quality)
          => /\ lastCall'.ret = None
             /\ lastCall'.signals = << Signal("download_error", None) >>
             /\ UNCHANGED <<dm_vars, downloads>> ]_vars

\* an invalid URL submitted in a session that has a record already
C7_Witness ==
    /\ RejectedCall
    /\ lastCall.signals = << Signal("download_error", None) >>
    /\ DOMAIN downloads # {}

\* C8: the percent values of the progress_updated signals of one task are
\* non-decreasing and lie in [0, 100].
C8_ProgressMonotoneBounded ==
    \A t \in TaskIds :
        \A i, j \in Positions(t, "progress_updated") :
            /\ queue[t][i].progress \in 0 .. 100
            /\ i <= j => queue[t][i].progress <= queue[t][j].progress

\* at most one info_extracted, and before status_changed "downloading"
InfoFirst(t) ==
    /\ Cardinality(Positions(t, "info_extracted")) <= 1
    /\ \A i \in Positions(t, "info_extracted"), j \in Positions(t, "status_changed") :
          IsStatus(queue[t][j], "downloading") => i < j

\* every progress_updated after status_changed "downloading" and before the
\* terminal signal
ProgressBetween(t) ==
    \A i \in Positions(t, "progress_updated") :
        /\ \E j \in 1 .. i - 1 : IsStatus(queue[t][j], "downloading")
        /\ \A k \in Terminals(t) : i < k

\* C9 as stated: for each task at most one info_extracted, before
\* status_changed "downloading"; every progress_updated between status_changed
\* "downloading" and the terminal signal; no signal after the terminal signal.
C9_ProtocolOrder ==
    \A t \in TaskIds :
        /\ InfoFirst(t)
        /\ ProgressBetween(t)
        /\ \A k \in Terminals(t) : k = Len(queue[t])

\* C9: for each task at most one info_extracted, before status_changed
\* "downloading"; every progress_updated between status_changed "downloading"
\* and the terminal signal; after the terminal signal nothing but the one
\* status_changed "completed" that follows download_finished.
C9_ProtocolOrderThenCompleted ==
    \A t \in TaskIds :
        /\ InfoFirst(t)
        /\ ProgressBetween(t)
        /\ \A k \in Terminals(t) :
              \/ k = Len(queue[t])
              \/ /\ k = Len(queue[t]) - 1
                 /\ queue[t][k].sig = "download_finished"
                 /\ IsStatus(queue[t][k + 1], "completed")

\* a worker that has returned after metadata, progress, download_finished and
\* status_changed "completed"
C9_Witness ==
    \E t \in TaskIds :
        /\ pc[t] = "done"
        /\ Positions(t, "progress_updated") # {}
        /\ Len(queue[t]) >= 5
        /\ queue[t][Len(queue[t]) - 1].sig = "download_finished"
        /\ IsStatus(queue[t][Len(queue[t])], "completed")

\* C10: when the extraction of a worker has produced no metadata (the call
\* raised or returned an empty result), the worker has emitted download_error
\* and nothing else and has terminated without reaching the transfer.
C10_NoTransferWithoutMetadata ==
    \A t \in TaskIds :
        pc[t] \notin {"idle", "extract"} /\ Positions(t, "info_extracted") = {}
        => /\ pc[t] = "done"
           /\ Len(queue[t]) = 1
           /\ queue[t][1].sig = "download_error"
           /\ t \notin DOMAIN download_opts
\* C11: the orchestrator emits status_changed(task_id, s) for every
\* transition of a task into status s, the terminal status error included: a
\* worker that reported a failure has also emitted status_changed "error".
C11_StatusChangedForError ==
    \A t \in TaskIds :
        pc[t] = "done" /\ Positions(t, "download_error") # {}
        => \E j \in Positions(t, "status_changed") : IsStatus(queue[t][j], "error")

\* C12: when the transfer call ends with DownloadCancelled the worker emits
\* status_changed "cancelled", and neither download_error nor download_finished
\* is emitted for that task; any other error of the transfer yields
\* download_error and never status_changed "cancelled".
C12_CancelledIsNotFailure ==
    /\ [][ \A t \in TaskIds :
             /\ W_TransferCancelled(t)
                => queue'[t] = Append(queue[t], [sig |-> "status_changed",
                                                 status |-> "cancelled"])
             /\ W_TransferRaises(t)
                => /\ Len(queue'[t]) = Len(queue[t]) + 1
                   /\ SubSeq(queue'[t], 1, Len(queue[t])) = queue[t]
                   /\ queue'[t][Len(queue'[t])].sig = "download_error" ]_vars
    /\ [](\A t \in TaskIds :
             (\E i \in Positions(t, "status_changed") : IsStatus(queue[t][i], "cancelled"))
             => /\ Positions(t, "download_error") = {}
                /\ Positions(t, "download_finished") = {})

\* a worker that has returned after a transfer that had made progress and
\* was then cancelled
C12_Witness ==
    \E t \in TaskIds :
        /\ pc[t] = "done"
        /\ Positions(t, "progress_updated") # {}
        /\ IsStatus(queue[t][Len(queue[t])], "cancelled")

(***************************************************************************)
(* Properties of the session model.  Under Spec the slots consume the      *)
(* signals: Head(queue[t]) is the signal the main thread handles next.     *)
(***************************************************************************)
\* the main thread handles the signal sig of task t in this step
Handles(t, sig) ==
    /\ queue[t] # <<>>
    /\ Head(queue[t]).sig = sig
    /\ Deliver(t)

\* C13: library.json changes only while the session model handles a
\* download_finished signal of a task it holds, and the write adds or
\* replaces only the entry of that signal's record; a worker that never
\* emitted download_finished, and every other operation (submit, cancel,
\* remove, the other slots), leave the library as it is.
C13_LibraryWrittenOnlyOnFinished ==
    [][ library' # library
        => \E t \in DOMAIN downloads :
              /\ Handles(t, "download_finished")
              /\ library'.kind = "ok"
                 => DOMAIN library'.data =
                      DOMAIN load_library \cup {Head(queue[t]).metadata.video_id} ]_vars

\* the library holds the entry written while download_finished was handled
C13_Witness ==
    /\ lastCall.op = "_on_download_finished"
    /\ library.kind = "ok"
    /\ DOMAIN library.data # {}

\* C14: for a download submitted with the quality "720p" of the table that
\* succeeds, the record emitted with download_finished has the requested
\* quality and a non-empty filepath, and the session record that became
\* completed by it has progress 100 and the requested quality.
C14_FinalRecordAsRequested ==
    \A t \in DOMAIN downloads :
        downloads[t].quality = "720p"
        => /\ \A i \in Positions(t, "download_finished") :
                 /\ queue[t][i].metadata.quality = downloads[t].quality
                 /\ queue[t][i].metadata.filepath # <<>>
           /\ lastCall.op = "_on_download_finished" /\ lastCall.arg = t
              => downloads[t].status = "completed" /\ downloads[t].progress = 100

\* C15: MainViewModel.cancel_download(task_id) of a task in the map sets the
\* status of its record to cancelled at once, emits
\* status_changed(task_id, "cancelled") and returns True, whatever
\* DownloadManager.cancel_download returned; for a task id not in the map it
\* returns False and changes nothing.
C15_CancelMarksCancelled ==
    [][ \A t \in TaskIds :
          VM_cancel_download(t)
          => IF t \in DOMAIN downloads
             THEN /\ downloads' = [downloads EXCEPT ![t].status = "cancelled"]
                  /\ lastCall'.ret = TRUE
                  /\ lastCall'.signals = << StatusSignal(t, "cancelled") >>
             ELSE /\ lastCall'.ret = FALSE
                  /\ lastCall'.signals = <<>>
                  /\ UNCHANGED <<dm_vars, downloads, library>> ]_vars

\* a cancel_download that returned True for a task the orchestrator no longer
\* holds as active, so that DownloadManager.cancel_download returned False
C15_Witness ==
    /\ lastCall.op = "cancel_download"
    /\ lastCall.ret = TRUE
    /\ lastCall.arg \notin active_downloads
    /\ downloads[lastCall.arg].status = "cancelled"

\* task t was submitted and is no longer (or was never) in the session map
Removed(t) == t <= nextId /\ t \notin DOMAIN downloads

\* C16: remove_download of a task in the map returns True, deletes the
\* record and leaves library.json unchanged; from then on the task is in no
\* later state in the map, so it is counted neither by get_active_count nor
\* by get_completed_count, and a signal of its worker that is handled
\* afterwards changes neither the map, the counts nor the library.
C16_RemovedStaysRemoved ==
    [][ \A t \in TaskIds :
          /\ t \in DOMAIN downloads /\ VM_remove_download(t)
             => /\ lastCall'.ret = TRUE
                /\ downloads' = Remove(downloads, t)
                /\ library' = library
          /\ Removed(t)
             => /\ Removed(t)'
                /\ Deliver(t)
                   => /\ UNCHANGED <<downloads, library>>
                      /\ get_active_count' = get_active_count
                      /\ get_completed_count' = get_completed_count
                      /\ lastCall'.signals = <<>> ]_vars

\* the download_finished signal of a removed task has just been handled
C16_Witness ==
    /\ lastCall.op = "_on_download_finished"
    /\ Removed(lastCall.arg)
    /\ library.kind = "missing"

\* C18: when save_metadata fails while download_finished is handled for a
\* task in the map (the library file is not written, or is left unreadable),
\* the record still becomes completed with progress 100 and download_completed
\* is the one signal emitted: no download_error, no status error.
C18_FailedWriteStillCompleted ==
    [][ \A t \in DOMAIN downloads :
          Handles(t, "download_finished") /\ library'.kind # "ok"
          => /\ downloads' = [downloads EXCEPT ![t].status = "completed",
                                               ![t].progress = 100]
             /\ lastCall'.signals = << Signal("download_completed", Some(t)) >> ]_vars

\* download_finished has been handled and the write left the file unreadable
C18_Witness ==
    /\ lastCall.op = "_on_download_finished"
    /\ library.kind = "corrupt"
    /\ lastCall.arg \in DOMAIN downloads
    /\ downloads[lastCall.arg].status = "completed"

(***************************************************************************)
(* Properties of the metadata store.                                       *)
(***************************************************************************)
\* the fields of a record that are stored
DurableFields ==
    {"video_id", "title", "uploader", "upload_date", "duration", "filename", "filepath",
     "file_size", "quality", "thumbnail_url", "url", "downloaded_at"}

Durable(v) == [f \in DurableFields |-> v[f]]

\* C19: save_metadata(record) on a readable library is insert-or-overwrite
\* by the record's video_id: after a successful call the library maps that id
\* to the durable fields of the new record, holds one entry for it, and every
\* entry under another id is as before.
C19_SaveIsUpsert ==
    [][ library.kind # "corrupt" /\ lastCall'.op = "save_metadata" /\ lastCall'.ret
        => LET r == lastCall'.arg
           IN  /\ library'.kind = "ok"
               /\ DOMAIN load_library' = DOMAIN load_library \cup {r.video_id}
               /\ load_library'[r.video_id] = to_dict(r)
               /\ \A k \in DOMAIN load_library \ {r.video_id} :
                     load_library'[k] = load_library[k] ]_vars

\* a record has just been saved over an entry of the same id, next to the
\* entry of another video; the entry holds the record saved last
C19_Witness ==
    /\ lastCall.op = "save_metadata"
    /\ lastCall.ret
    /\ lastCall.arg.downloaded_at = Some([s |-> 2, us |-> 500])
    /\ DOMAIN load_library = {IdA, IdB}
    /\ load_library[lastCall.arg.video_id] = to_dict(lastCall.arg)

\* C20: after save_metadata(r) succeeded, get_video_metadata(r.video_id) and
\* the matching element of get_all_videos() equal r on every durable field,
\* and so does from_dict(to_dict(r)).
C20_RoundTrip ==
    lastCall.op = "save_metadata" /\ lastCall.ret
    => LET r == lastCall.arg
       IN  /\ get_video_metadata(r.video_id) # None
           /\ Durable(get_video_metadata(r.video_id)[1]) = Durable(r)
           /\ \E v \in get_all_videos :
                 v.video_id = r.video_id /\ Durable(v) = Durable(r)
           /\ Durable(from_dict(to_dict(r))) = Durable(r)

\* the saved record carries a completion time with microseconds and an upload
\* date, and status fields that are not stored
C20_Witness ==
    /\ lastCall.op = "save_metadata"
    /\ lastCall.ret
    /\ lastCall.arg.downloaded_at # None
    /\ lastCall.arg.downloaded_at[1].us # 0
    /\ lastCall.arg.upload_date # None
    /\ get_video_metadata(lastCall.arg.video_id)[1] # lastCall.arg

SameLetter(a, b) ==
    a = b \/ \E k \in 1 .. 26 : {a, b} = {UpperSeq[k], LowerSeq[k]}

\* str contains q, compared case-insensitively
ContainsIgnoringCase(q, str) ==
    \E i \in 1 .. Len(str) - Len(q) + 1 :
        \A j \in 1 .. Len(q) : SameLetter(str[i + j - 1], q[j])

\* C21: search_videos(q) returns exactly the records of the library whose
\* title or uploader contains q compared case-insensitively, a subset of
\* get_all_videos().
C21_SearchIsCaseInsensitiveFilter ==
    lastCall.op = "search_videos"
    => /\ lastCall.ret.value = { v \in get_all_videos :
                             \/ ContainsIgnoringCase(lastCall.arg, v.title)
                             \/ ContainsIgnoringCase(lastCall.arg, v.uploader) }
       /\ lastCall.ret.value \subseteq get_all_videos
       /\ ~ lastCall.ret.raised

\* a query in capitals has found one of the two videos of the library, by the
\* title, which is written in another case
C21_Witness ==
    /\ lastCall.op = "search_videos"
    /\ lastCall.arg = <<"M","U","S","I","C">>
    /\ Cardinality(get_all_videos) = 2
    /\ Cardinality(lastCall.ret.value) = 1

\* what a reading operation returns on an empty library
OnEmptyLibrary(op) ==
    CASE op = "load_library" -> Returned(<<>>)
      [] op = "get_video_metadata" -> Returned(None)
      [] op \in {"get_all_videos", "search_videos"} -> Returned({})

\* the call that has just returned was a save_metadata or a remove_metadata
\* that had to write and did not leave the file it was to write
WriteFailed ==
    \/ /\ lastCall'.op = "save_metadata"
       /\ library' # [kind |-> "ok",
                      data |-> json_dump(Put(load_library, lastCall'.arg.video_id,
                                             to_dict(lastCall'.arg)))]
    \/ /\ lastCall'.op = "remove_metadata"
       /\ lastCall'.arg \in DOMAIN load_library
       /\ library' # [kind |-> "ok",
                      data |-> json_dump(Remove(load_library, lastCall'.arg))]

\* C22: on a missing or corrupt library file load_library, get_all_videos,
\* get_video_metadata and search_videos return what they return on an empty
\* library and raise nothing; a save_metadata or remove_metadata whose write
\* fails returns false.
C22_DamagedFileIsEmptyLibrary ==
    [][ /\ ( /\ lastCall'.op \in {"load_library", "get_video_metadata",
                                  "get_all_videos", "search_videos"}
             /\ library.kind \in {"missing", "corrupt"} )
           => lastCall'.ret = OnEmptyLibrary(lastCall'.op)
        /\ WriteFailed => lastCall'.ret = FALSE ]_vars

\* a write has failed half-way and left a corrupt file, and get_all_videos has
\* been called on it
C22_Witness ==
    /\ library.kind = "corrupt"
    /\ lastCall.op = "get_all_videos"
    /\ lastCall.ret = Returned({})

\* the selector fixed for each of the six qualities
FixedSelector ==
    ("best" :> "best") @@ ("1080p" :> "best[height<=1080]")
    @@ ("720p" :> "best[height<=720]") @@ ("480p" :> "best[height<=480]")
    @@ ("360p" :> "best[height<=360]") @@ ("audio" :> "bestaudio/best")

\* quality strings: the six listed ones and others
Qualities == DOMAIN FixedSelector \cup {"4k", "", "BEST", "1440p", "720", "worst"}

SelectorOf(quality) ==
    IF quality \in DOMAIN FixedSelector THEN FixedSelector[quality] ELSE FixedSelector["best"]

\* C23: each of best, 1080p, 720p, 480p, 360p, audio maps to its fixed
\* selector and every other quality to the selector of best; a submission of a
\* valid URL is accepted whatever its quality, and its transfer handle carries
\* the selector of its quality.
C23_SelectorTotalWithBestFallback ==
    /\ \A q \in Qualities : get_format_selector(q) = SelectorOf(q)
    /\ (lastCall.op = "add_download" /\ UrlTable[lastCall.arg].valid)
          => /\ lastCall.ret # None
             /\ args[lastCall.ret[1]] # None
             /\ \E s \in Submissions :
                   /\ s.url = lastCall.arg
                   /\ args[lastCall.ret[1]][1].quality = s.quality
    /\ \A t \in DOMAIN download_opts :
          args[t] # None => download_opts[t].format = SelectorOf(args[t][1].quality)

\* the submission with quality 4k has been accepted and its transfer handle
\* is registered with the selector best
C23_Witness ==
    \E t \in DOMAIN download_opts :
        /\ args[t] # None
        /\ args[t][1].quality = "4k"
        /\ download_opts[t].format = "best"

\* the total size d reports: total_bytes, or else the estimate, when it is a
\* positive number; 0 when it is zero or unknown
TotalSize(d) ==
    IF d.total_bytes.k = "int" /\ d.total_bytes.v > 0 THEN d.total_bytes.v
    ELSE IF d.total_bytes_estimate.k = "int" /\ d.total_bytes_estimate.v > 0
    THEN d.total_bytes_estimate.v
    ELSE 0

\* the signals task t emits in this step
Emitted(t) == SubSeq(queue'[t], Len(queue[t]) + 1, Len(queue'[t]))

ProgressEmitted(t) ==
    { i \in 1 .. Len(Emitted(t)) : Emitted(t)[i].sig = "progress_updated" }

\* C24: a hook invocation with status downloading and a zero or unknown total
\* emits no progress_updated; one with a positive total emits exactly one,
\* with percent downloaded/total*100; one with status finished emits exactly
\* one with percent 100, and no download_finished has been emitted before it.
C24_HookEmitsPerTotal ==
    [][ \A t \in TaskIds, d \in HookInputs :
          W_Hook(t, d) =>
            /\ (d.status = "downloading" /\ TotalSize(d) = 0) => ProgressEmitted(t) = {}
            /\ (d.status = "downloading" /\ TotalSize(d) > 0) =>
                  /\ ProgressEmitted(t) = {1}
                  /\ Len(Emitted(t)) = 1
                  /\ Emitted(t)[1].progress = (d.downloaded_bytes * 100) \div TotalSize(d)
            /\ d.status = "finished" =>
                  /\ ProgressEmitted(t) = {1}
                  /\ Len(Emitted(t)) = 1
                  /\ Emitted(t)[1].progress = 100
                  /\ Positions(t, "download_finished") = {} ]_vars

\* a task has emitted a progress of 100 and, later, download_finished
C24_Witness ==
    \E t \in TaskIds :
        \E i \in Positions(t, "progress_updated"), j \in Positions(t, "download_finished") :
            /\ queue[t][i].progress = 100
            /\ i < j

\* C25: a session record whose status is completed, error or cancelled keeps
\* that status in every later step, whatever cancel_download calls and worker
\* events still arrive.
C25_TerminalStatusIsFinal ==
    [][ \A t \in DOMAIN downloads \cap DOMAIN downloads' :
          downloads[t].status \in {"completed", "error", "cancelled"}
            => downloads'[t].status = downloads[t].status ]_vars

\* C26: when DownloadManager.cancel_download has returned true for a task, the
\* stop signal has been delivered to the transfer handle of that task.
C26_CancelTrueStopsTransfer ==
    (lastCall.op = "cancel_download" /\ lastCall.ret = TRUE)
       => /\ lastCall.arg \in DOMAIN download_opts
          /\ download_opts[lastCall.arg].cancelled

\* C27: for every session record, the filepath is non-empty exactly when the
\* status is completed.
C27_FilepathIffCompleted ==
    \A t \in DOMAIN downloads :
        downloads[t].filepath # <<>> <=> downloads[t].status = "completed"

\* the main thread has the task id of t from the orchestrator and has not yet
\* put the record into the map
NotYetRegistered(t) == main # None /\ main[1].task_id = Some(t)

Slots ==
    {"_on_info_extracted", "_on_progress", "_on_status_changed",
     "_on_download_finished", "_on_download_error"}

\* C28 as stated: the placeholder record is in the session task map before
\* the orchestrator is asked to spawn the worker, so no task has a worker
\* while its record is not yet registered.
C28_RegisteredBeforeSpawn ==
    \A t \in TaskIds : pc[t] # "idle" => ~ NotYetRegistered(t)

\* C28: an accepted add_download asks the orchestrator for the worker first
\* and then registers the placeholder record (status pending, title the
\* loading placeholder, requested quality) under the returned task id before
\* it returns; a slot that discards an event of a task does so for a task
\* that was removed, never for one whose record is not yet registered.
C28_NoEventBeforeRegistration ==
    [][ /\ \A t \in TaskIds :
              NotYetRegistered(t) /\ main' = None =>
                 /\ t \in DOMAIN downloads'
                 /\ downloads'[t].status = "pending"
                 /\ downloads'[t].title = T_Loading
                 /\ \E s \in Submissions :
                       s.url = main[1].url /\ downloads'[t].quality = s.quality
        /\ \A t \in TaskIds :
              ( /\ queue[t] # <<>>
                /\ queue'[t] = Tail(queue[t])
                /\ lastCall'.op \in Slots
                /\ lastCall'.signals = <<>> )
              => t <= nextId /\ ~ NotYetRegistered(t) ]_vars

\* the worker of a task has emitted a signal while the main thread has not
\* yet registered the record of the task
C28_Witness ==
    \E t \in TaskIds : NotYetRegistered(t) /\ queue[t] # <<>>

\* C29: when a download_finished of a task is handled, the library gets an
\* entry under the video id of the event with a completion timestamp, unless
\* the write of the store fails; this also for a task that was cancelled or
\* removed in the session model before.
C29_FinishedReachesLibrary ==
    [][ \A t \in TaskIds :
          Handles(t, "download_finished") =>
             LET id == Head(queue[t]).metadata.video_id
             IN  \/ /\ library'.kind = "ok"
                    /\ id \in DOMAIN load_library'
                    /\ load_library'[id].downloaded_at # None
                 \/ /\ t \in DOMAIN downloads
                    /\ library' = library \/ library'.kind = "corrupt" ]_vars

=============================================================================
